---- MODULE Spec2Model ----
(***************************************************************************)
(* Session / step tracking layer of computer_use_demo/loop_rest.py:        *)
(* the process-wide `sessions` registry, the per-session                   *)
(* EnhancedCallbackStore adapter, the create_conversation orchestrator and *)
(* the three read endpoints.                                               *)
(*                                                                         *)
(* The handlers are coroutines on one event loop.  The only suspension     *)
(* point of the module is `await sampling_loop(...)`, so an action is a    *)
(* stretch of code between two suspension points.  create_conversation is  *)
(* cut once more, between the assignments of lines 162-164 and the         *)
(* construction of the response in lines 166-170, because the construction *)
(* can raise while the assignments have already been made.  The three GET  *)
(* handlers only read: each is an operator computing the response from the *)
(* registry, and an action that leaves the state as it is.                 *)
(***************************************************************************)
EXTENDS Integers, Sequences, FiniteSets, TLC

(***************************************************************************)
(* Bounds of the model.                                                    *)
(***************************************************************************)
MaxSessions == 2
MaxCallbacks == 2
MaxTime == 1

(***************************************************************************)
(* Python values.                                                          *)
(***************************************************************************)
\* None of an Optional[str] / Optional[StepType] / Optional[StepStatus].
None == "None"
\* None of an Optional[datetime] (end_time).
NoneTime == -1
\* None of an Optional[ConversationStep] (current_step): no step has this id.
NoStep == <<>>
\* A UUID that uuid4() never handed out to a session.
UnusedId == 0

\* Python truthiness of an Optional[str]: None and "" are falsy.
Truthy(v) == v # None /\ v # ""

StepType == {"model_call", "tool_use", "tool_result", "error"}
StepStatus == {"pending", "running", "completed", "failed"}

\* ConversationStep(...) : id is drawn by the default factory, end_time and
\* error default to None, details to {}.
ConversationStep(id, type, status, start_time, end_time, details, error) ==
    [id |-> id, type |-> type, status |-> status, start_time |-> start_time,
     end_time |-> end_time, details |-> details, error |-> error]

\* ConversationSession(id=..., messages=...) : the other fields take their
\* defaults, created_at = updated_at = now, steps = [], status = PENDING.
ConversationSession(id, messages, t) ==
    [id |-> id, created_at |-> t, updated_at |-> t, steps |-> <<>>,
     messages |-> messages, status |-> "pending"]

(***************************************************************************)
(* Inputs.                                                                 *)
(***************************************************************************)
UserMsg == [role |-> "user", content |-> "hi"]
AssistantMsg == [role |-> "assistant", content |-> "hello"]
\* A record that is not a BetaMessageParam (role outside user/assistant).
BadMsg == [role |-> "tool", content |-> "x"]

RequestMessages == {<<UserMsg>>}
\* What the external sampling loop may return.
LoopResults == {<<UserMsg, AssistantMsg>>, <<UserMsg, BadMsg>>}
\* Texts of the errors the external sampling loop may raise.
LoopErrors == {"rate limited", ""}

Providers == {"anthropic", "other"}
Models == {None, "claude-x"}
\* Provider -> default model table imported from .loop.
PROVIDER_TO_DEFAULT_MODEL_NAME == [p \in {"anthropic"} |-> "claude-default"]

Blocks == {[type |-> "text", text |-> "hello"]}
ToolResults == {[output |-> "42", error |-> None, base64_image |-> None],
                [output |-> None, error |-> "boom", base64_image |-> None],
                [output |-> "", error |-> "", base64_image |-> "png"]}
ToolIds == {"tool-1"}
ApiResponses == {[status_code |-> 200, headers |-> "h"]}

\* Error arguments of _complete_step.
Errors == {None, "", "boom"}

\* Values of the two filters; None is a filter left out of the query.
TypeFilters == {None} \cup StepType
StatusFilters == {None} \cup StepStatus
\* The filters the clients of the model send.
SentTypeFilters == {None, "tool_use"}
SentStatusFilters == {None, "failed"}

VARIABLES
    sessions,   \* the registry: session id -> ConversationSession
    callbacks,  \* session id -> the EnhancedCallbackStore of its run
    pc,         \* session id -> position of its create_conversation run
    loop,       \* session id -> what its sampling_loop call has done so far
    calls,      \* session id -> the callbacks its sampling loop has delivered
    response,   \* session id -> what its create_conversation call answered
    request,    \* session id -> the messages of the request of its run
    now         \* the wall clock read by datetime.now()

vars == <<sessions, callbacks, pc, loop, calls, response, request, now>>

SessionIds == DOMAIN sessions

Init ==
    /\ sessions = <<>>
    /\ callbacks = <<>>
    /\ pc = <<>>
    /\ loop = <<>>
    /\ calls = <<>>
    /\ response = <<>>
    /\ request = <<>>
    /\ now = 0

\* uuid4() of the default factory of ConversationStep.id: a value no other
\* step has, here the session and the position the step is appended at.
uuid4(sess, sid) == <<sid, Len(sess[sid].steps) + 1>>

\* Callbacks delivered so far, over all sessions.
RECURSIVE TotalCalls(_)
TotalCalls(n) ==
    IF n = 0 THEN 0 ELSE Len(calls[n]) + TotalCalls(n - 1)

\* f with key k bound to v (dict item assignment).
SetItem(f, k, v) == [x \in (DOMAIN f) \cup {k} |-> IF x = k THEN v ELSE f[x]]

(***************************************************************************)
(* EnhancedCallbackStore.  An adapter is [session_id, current_step];       *)
(* current_step holds the id of the step object it references.  The        *)
(* methods work on S = [sessions, callbacks, raised] and return S after    *)
(* the call; raised tells that an exception left the method.               *)
(***************************************************************************)
EnhancedCallbackStore(session_id) ==
    [session_id |-> session_id, current_step |-> NoStep]

\* Mutant: the sessions share one steps list (a default that is not copied).
AppendStep_shared(sess, sid, step) ==
    [x \in DOMAIN sess |-> [sess[x] EXCEPT !.steps = Append(@, step)]]

\* list.append on the steps of sessions[sid].
AppendStep(sess, sid, step) ==
    [sess EXCEPT ![sid].steps = Append(@, step)]

\* Mutant: the new step is put in front of the list.
_add_step_prepend(S, self, step_type, details, t) ==
    LET sid  == S.callbacks[self].session_id
        step == ConversationStep(uuid4(S.sessions, sid), step_type, "running",
                                 t, NoneTime, details, None)
    IN  [S EXCEPT !.sessions[sid].steps = <<step>> \o @,
                  !.callbacks[self].current_step = step.id]

\* Mutant: the adapter does not keep the reference to the new step.
_add_step_untracked(S, self, step_type, details, t) ==
    LET sid  == S.callbacks[self].session_id
        step == ConversationStep(uuid4(S.sessions, sid), step_type, "running",
                                 t, NoneTime, details, None)
    IN  [S EXCEPT !.sessions = AppendStep(@, sid, step)]

_add_step(S, self, step_type, details, t) ==
    LET sid  == S.callbacks[self].session_id
        step == ConversationStep(uuid4(S.sessions, sid), step_type, "running",
                                 t, NoneTime, details, None)
    IN  [S EXCEPT !.sessions = AppendStep(@, sid, step),
                  !.callbacks[self].current_step = step.id]

\* Mutant: end_time is not written.
CloseStep_no_end_time(step, error, t) ==
    LET closed == [step EXCEPT !.status = IF Truthy(error) THEN "failed"
                                          ELSE "completed"]
    IN  IF Truthy(error) THEN [closed EXCEPT !.error = error] ELSE closed

\* Mutant: `error is not None` in place of the truth value of error.
CloseStep_is_not_None(step, error, t) ==
    LET closed == [step EXCEPT !.end_time = t,
                               !.status = IF error # None THEN "failed"
                                          ELSE "completed"]
    IN  IF error # None THEN [closed EXCEPT !.error = error] ELSE closed

\* The writes of lines 104-107 to the step object current_step references.
CloseStep(step, error, t) ==
    LET closed == [step EXCEPT !.end_time = t,
                               !.status = IF Truthy(error) THEN "failed"
                                          ELSE "completed"]
    IN  IF Truthy(error) THEN [closed EXCEPT !.error = error] ELSE closed

\* Mutant: no test of current_step; writing through None raises.
_complete_step_unguarded(S, self, error, t) ==
    LET cur == S.callbacks[self].current_step
        sid == S.callbacks[self].session_id
    IN  IF cur # NoStep
        THEN [S EXCEPT !.sessions[sid].steps =
                           [i \in DOMAIN @ |-> IF @[i].id = cur
                                               THEN CloseStep(@[i], error, t)
                                               ELSE @[i]],
                       !.callbacks[self].current_step = NoStep]
        ELSE [S EXCEPT !.raised = TRUE]

\* Mutant: every step of the session is closed, not only the open one.
_complete_step_every_step(S, self, error, t) ==
    LET cur == S.callbacks[self].current_step
        sid == S.callbacks[self].session_id
    IN  IF cur # NoStep
        THEN [S EXCEPT !.sessions[sid].steps =
                           [i \in DOMAIN @ |-> CloseStep(@[i], error, t)],
                       !.callbacks[self].current_step = NoStep]
        ELSE S

\* Mutant: a step closed with an error also marks the session FAILED.
_complete_step_fails_session(S, self, error, t) ==
    LET cur == S.callbacks[self].current_step
        sid == S.callbacks[self].session_id
    IN  IF cur # NoStep
        THEN [S EXCEPT !.sessions[sid].steps =
                           [i \in DOMAIN @ |-> IF @[i].id = cur
                                               THEN CloseStep(@[i], error, t)
                                               ELSE @[i]],
                       !.sessions[sid].status =
                           IF Truthy(error) THEN "failed" ELSE @,
                       !.callbacks[self].current_step = NoStep]
        ELSE S

_complete_step(S, self, error, t) ==
    LET cur == S.callbacks[self].current_step
        sid == S.callbacks[self].session_id
    IN  IF cur # NoStep
        THEN [S EXCEPT !.sessions[sid].steps =
                           [i \in DOMAIN @ |-> IF @[i].id = cur
                                               THEN CloseStep(@[i], error, t)
                                               ELSE @[i]],
                       !.callbacks[self].current_step = NoStep]
        ELSE S

Store == [sessions |-> sessions, callbacks |-> callbacks, raised |-> FALSE]

\* The sampling loop of session s is running and may call back.
Delivering(s) ==
    /\ s \in DOMAIN pc
    /\ pc[s] = "await"
    /\ TotalCalls(Cardinality(DOMAIN calls)) < MaxCallbacks

\* Common tail of the three callbacks: the adapter's effect S2 is installed
\* and the callback returns to the sampling loop.
Delivered(s, name, S2) ==
    /\ sessions' = S2.sessions
    /\ callbacks' = S2.callbacks
    /\ calls' = [calls EXCEPT ![s] = Append(@, name)]
    /\ UNCHANGED <<pc, loop, response, request, now>>

content_callback(s, block) ==
    /\ Delivering(s)
    /\ LET details == [content_type |-> block.type, content |-> block]
           S1 == _add_step(Store, s, "model_call", details, now)
           S2 == _complete_step(S1, s, None, now)
       IN  Delivered(s, "content_callback", S2)

tool_callback(s, result, tool_id) ==
    /\ Delivering(s)
    /\ LET details == [tool_id |-> tool_id,
                       result |-> [output |-> result.output,
                                   error |-> result.error,
                                   has_image |-> Truthy(result.base64_image)]]
           S1 == _add_step(Store, s, "tool_use", details, now)
           S2 == _complete_step(S1, s, result.error, now)
       IN  Delivered(s, "tool_callback", S2)

api_callback(s, api_response) ==
    /\ Delivering(s)
    /\ LET details == [status_code |-> api_response.status_code,
                       headers |-> api_response.headers]
           S1 == _add_step(Store, s, "tool_result", details, now)
           S2 == _complete_step(S1, s, None, now)
       IN  Delivered(s, "api_callback", S2)

\* A call of _complete_step from outside the three callbacks.  The adapter
\* is a local of create_conversation (line 146), handed to the sampling loop:
\* it can be called while that loop runs.
complete_step_call(s, error) ==
    /\ s \in DOMAIN callbacks
    /\ pc[s] = "await"
    /\ LET S2 == _complete_step(Store, s, error, now)
       IN  /\ sessions' = S2.sessions
           /\ callbacks' = S2.callbacks
    /\ UNCHANGED <<pc, loop, calls, response, request, now>>

(***************************************************************************)
(* create_conversation.                                                    *)
(***************************************************************************)
\* str(e) of the KeyError of line 144 and of pydantic's ValidationError.
KeyErrorText(provider) == "KeyError:" \o provider
ValidationErrorText == "validation error"

\* List[BetaMessageParam] validation run by ConversationResponse(...).
ValidMessages(messages) ==
    \A i \in DOMAIN messages : messages[i].role \in {"user", "assistant"}

\* HTTPException(status_code, detail) leaving a handler.
HTTPException(status_code, detail) ==
    [code |-> status_code, detail |-> detail]

\* Mutant: the session is marked FAILED and no step is appended.
ExceptClause_no_step(sess, session_id, text, t) ==
    IF session_id \in DOMAIN sess
    THEN [sess EXCEPT ![session_id].status = "failed"]
    ELSE sess

\* Mutant: the ERROR step is appended and the status is left as it was.
ExceptClause_no_status(sess, session_id, text, t) ==
    IF session_id \in DOMAIN sess
    THEN LET error_step == ConversationStep(uuid4(sess, session_id), "error",
                                            "failed", t, t, <<>>, text)
         IN  AppendStep(sess, session_id, error_step)
    ELSE sess

\* Lines 173-182: the registry after the except clause has run for an
\* exception whose str() is `text`.
ExceptClause(sess, session_id, text, t) ==
    IF session_id \in DOMAIN sess
    THEN LET failed == [sess EXCEPT ![session_id].status = "failed"]
             error_step == ConversationStep(uuid4(sess, session_id), "error",
                                            "failed", t, t, <<>>, text)
         IN  AppendStep(failed, session_id, error_step)
    ELSE sess

\* Lines 172-183 as the end of the run of session s.
Fail(sess, s, text) ==
    /\ sessions' = ExceptClause(sess, s, text, now)
    /\ pc' = SetItem(pc, s, "done")
    /\ response' = SetItem(response, s, HTTPException(500, text))

\* Mutant: the table is read with a default, the lookup never fails.
create_conversation_no_lookup(messages, provider, model) ==
    /\ Cardinality(SessionIds) < MaxSessions
    /\ LET session_id == Cardinality(SessionIds) + 1
           session == ConversationSession(session_id, messages, now)
       IN  /\ calls' = SetItem(calls, session_id, <<>>)
           /\ request' = SetItem(request, session_id, [messages |-> messages])
           /\ sessions' = SetItem(sessions, session_id, session)
           /\ callbacks' = SetItem(callbacks, session_id,
                                   EnhancedCallbackStore(session_id))
           /\ loop' = SetItem(loop, session_id, [state |-> "running"])
           /\ pc' = SetItem(pc, session_id, "await")
    /\ UNCHANGED <<response, now>>

\* Lines 138-149: the session is registered, the model name resolved, the
\* adapter built and the sampling loop entered; a failing table lookup goes
\* to the except clause instead.
create_conversation(messages, provider, model) ==
    /\ Cardinality(SessionIds) < MaxSessions
    /\ LET session_id == Cardinality(SessionIds) + 1
           session == ConversationSession(session_id, messages, now)
           registered == SetItem(sessions, session_id, session)
       IN  /\ calls' = SetItem(calls, session_id, <<>>)
           /\ request' = SetItem(request, session_id, [messages |-> messages])
           /\ IF ~Truthy(model) /\ provider \notin DOMAIN PROVIDER_TO_DEFAULT_MODEL_NAME
              THEN /\ Fail(registered, session_id, KeyErrorText(provider))
                   /\ UNCHANGED <<callbacks, loop>>
              ELSE /\ sessions' = registered
                   /\ callbacks' = SetItem(callbacks, session_id,
                                           EnhancedCallbackStore(session_id))
                   /\ loop' = SetItem(loop, session_id, [state |-> "running"])
                   /\ pc' = SetItem(pc, session_id, "await")
                   /\ UNCHANGED response
    /\ UNCHANGED now

\* Lines 149, 162-164: sampling_loop returns `messages`.
loop_returns(s, messages) ==
    /\ s \in DOMAIN pc
    /\ pc[s] = "await"
    /\ loop' = [loop EXCEPT ![s] = [state |-> "returned", messages |-> messages]]
    /\ sessions' = [sessions EXCEPT ![s].messages = messages,
                                    ![s].status = "completed",
                                    ![s].updated_at = now]
    /\ pc' = [pc EXCEPT ![s] = "respond"]
    /\ UNCHANGED <<callbacks, calls, response, request, now>>

\* Lines 149, 172-183: sampling_loop raises an exception whose str() is m.
loop_raises(s, m) ==
    /\ s \in DOMAIN pc
    /\ pc[s] = "await"
    /\ loop' = [loop EXCEPT ![s] = [state |-> "raised", text |-> m]]
    /\ Fail(sessions, s, m)
    /\ UNCHANGED <<callbacks, calls, request, now>>

\* Lines 166-170: the response is built and returned; when its validation
\* raises, the except clause of lines 172-183 runs.
build_response(s) ==
    /\ s \in DOMAIN pc
    /\ pc[s] = "respond"
    /\ IF ValidMessages(loop[s].messages)
       THEN /\ response' = SetItem(response, s,
                               [code |-> 200,
                                session_id |-> s,
                                status |-> sessions[s].status,
                                messages |-> loop[s].messages])
            /\ pc' = [pc EXCEPT ![s] = "done"]
            /\ UNCHANGED sessions
       ELSE Fail(sessions, s, ValidationErrorText)
    /\ UNCHANGED <<callbacks, loop, calls, request, now>>

(***************************************************************************)
(* The read endpoints, as functions of the registry `sess`.                *)
(***************************************************************************)
NotFound == HTTPException(404, "not found")

\* Mutant: an unknown id is answered with a fresh default session.
get_conversation_default(sess, session_id) ==
    IF session_id \notin DOMAIN sess
    THEN [code |-> 200, body |-> ConversationSession(session_id, <<>>, 0)]
    ELSE [code |-> 200, body |-> sess[session_id]]

get_conversation(sess, session_id) ==
    IF session_id \notin DOMAIN sess
    THEN NotFound
    ELSE [code |-> 200, body |-> sess[session_id]]

\* One list comprehension of lines 205 / 207.
FilterBy(steps, field, value) ==
    SelectSeq(steps, LAMBDA step : step[field] = value)

\* Mutant: the status filter reads the unfiltered list again.
get_conversation_steps_refilter(sess, session_id, step_type, status) ==
    IF session_id \notin DOMAIN sess
    THEN NotFound
    ELSE LET steps0 == sess[session_id].steps
             steps1 == IF Truthy(step_type)
                       THEN FilterBy(steps0, "type", step_type) ELSE steps0
             steps2 == IF Truthy(status)
                       THEN FilterBy(steps0, "status", status) ELSE steps1
         IN  [code |-> 200, body |-> steps2]

get_conversation_steps(sess, session_id, step_type, status) ==
    IF session_id \notin DOMAIN sess
    THEN NotFound
    ELSE LET steps0 == sess[session_id].steps
             steps1 == IF Truthy(step_type)
                       THEN FilterBy(steps0, "type", step_type) ELSE steps0
             steps2 == IF Truthy(status)
                       THEN FilterBy(steps1, "status", status) ELSE steps1
         IN  [code |-> 200, body |-> steps2]

\* Mutant: the loop starts at the second step.
RECURSIVE Tally_skip_first(_, _, _, _)
Tally_skip_first(steps, n, field, counts) ==
    IF n <= 1 THEN counts
    ELSE LET before == Tally_skip_first(steps, n - 1, field, counts)
         IN  [before EXCEPT ![steps[n][field]] = @ + 1]

\* The accumulation loop of lines 224-226 over steps[1..n].
RECURSIVE Tally(_, _, _, _)
Tally(steps, n, field, counts) ==
    IF n = 0 THEN counts
    ELSE LET before == Tally(steps, n - 1, field, counts)
         IN  [before EXCEPT ![steps[n][field]] = @ + 1]

get_conversation_summary(sess, session_id, t) ==
    IF session_id \notin DOMAIN sess
    THEN NotFound
    ELSE LET session == sess[session_id]
             step_counts == [step_type \in StepType |-> 0]
             status_counts == [status \in StepStatus |-> 0]
             n == Len(session.steps)
         IN  [code |-> 200,
              body |-> [session_id |-> session_id,
                        status |-> session.status,
                        created_at |-> session.created_at,
                        updated_at |-> session.updated_at,
                        total_duration |-> t - session.created_at,
                        total_steps |-> Len(session.steps),
                        step_type_counts |->
                            Tally(session.steps, n, "type", step_counts),
                        status_counts |->
                            Tally(session.steps, n, "status", status_counts),
                        messages_count |-> Len(session.messages)]]

\* Ids a client may ask for: every id handed out so far and one never used.
QueryIds == SessionIds \cup {UnusedId}

\* The GET handlers: whatever the request, the handler answers 200 or 404
\* and writes nothing.
GetConversation ==
    /\ \A session_id \in QueryIds :
           get_conversation(sessions, session_id).code \in {200, 404}
    /\ UNCHANGED vars

GetConversationSteps ==
    /\ \A session_id \in QueryIds, step_type \in SentTypeFilters,
          status \in SentStatusFilters :
           get_conversation_steps(sessions, session_id, step_type, status).code
               \in {200, 404}
    /\ UNCHANGED vars

GetConversationSummary ==
    /\ \A session_id \in QueryIds :
           get_conversation_summary(sessions, session_id, now).code
               \in {200, 404}
    /\ UNCHANGED vars

\* Wall-clock time passes.
Tick ==
    /\ now < MaxTime
    /\ now' = now + 1
    /\ UNCHANGED <<sessions, callbacks, pc, loop, calls, response, request>>

Next ==
    \/ \E messages \in RequestMessages, provider \in Providers, model \in Models :
           create_conversation(messages, provider, model)
    \/ \E s \in DOMAIN pc, block \in Blocks : content_callback(s, block)
    \/ \E s \in DOMAIN pc, result \in ToolResults, tool_id \in ToolIds :
           tool_callback(s, result, tool_id)
    \/ \E s \in DOMAIN pc, api_response \in ApiResponses :
           api_callback(s, api_response)
    \/ \E s \in DOMAIN callbacks, error \in Errors : complete_step_call(s, error)
    \/ \E s \in DOMAIN pc, messages \in LoopResults : loop_returns(s, messages)
    \/ \E s \in DOMAIN pc, m \in LoopErrors : loop_raises(s, m)
    \/ \E s \in DOMAIN pc : build_response(s)
    \/ GetConversation
    \/ GetConversationSteps
    \/ GetConversationSummary

\* The handlers with the clock standing still.
Spec == Init /\ [][Next]_vars

\* The handlers with the clock advancing between them.
SpecClock == Init /\ [][Next \/ Tick]_vars

(***************************************************************************)
(* Vocabulary of the properties.                                           *)
(***************************************************************************)
Terminal == {"completed", "failed"}

\* The step type each callback records.
StepTypeOf(name) ==
    CASE name = "content_callback" -> "model_call"
      [] name = "tool_callback"    -> "tool_use"
      [] name = "api_callback"     -> "tool_result"

\* The answer to GET /conversation/{s}/steps without filters.
AllSteps(s) == get_conversation_steps(sessions, s, None, None)

\* The first n steps of the listing are the steps of the n callbacks
\* delivered to the adapter of s, in the order of delivery.
CallbackStepsInOrder(s, listing) ==
    /\ Len(listing) >= Len(calls[s])
    /\ \A i \in 1..Len(calls[s]) : listing[i].type = StepTypeOf(calls[s][i])

\* The run of s has gone through the except clause of create_conversation.
Failed(s) == s \in DOMAIN response /\ response[s].code = 500

RECURSIVE SumOver(_, _)
SumOver(f, keys) ==
    IF keys = {} THEN 0
    ELSE LET k == CHOOSE x \in keys : TRUE
         IN  f[k] + SumOver(f, keys \ {k})

\* Session ids no create_conversation call has handed out.
NeverCreated == (0..(MaxSessions + 1)) \ SessionIds

(***************************************************************************)
(* C1 as stated: for every session with an adapter, after N callbacks the  *)
(* unfiltered step listing holds exactly N steps, one per callback, in     *)
(* call order.                                                             *)
(***************************************************************************)
C1_ExactlyTheCallbackSteps ==
    \A s \in DOMAIN callbacks :
        /\ AllSteps(s).code = 200
        /\ CallbackStepsInOrder(s, AllSteps(s).body)
        /\ Len(AllSteps(s).body) = Len(calls[s])

(***************************************************************************)
(* C1 amended: for every session with an adapter, after N callbacks the    *)
(* unfiltered step listing holds the N callback steps, one per callback in *)
(* call order, and nothing else, except that one ERROR step follows them   *)
(* once create_conversation has failed.                                    *)
(***************************************************************************)
C1_CallbackStepsThenError ==
    \A s \in DOMAIN callbacks :
        LET listing == AllSteps(s).body
            N == Len(calls[s])
        IN  /\ AllSteps(s).code = 200
            /\ CallbackStepsInOrder(s, listing)
            /\ IF Failed(s)
               THEN Len(listing) = N + 1 /\ listing[N + 1].type = "error"
               ELSE Len(listing) = N

C1_Witness ==
    \E s \in DOMAIN callbacks :
        /\ Len(calls[s]) = 2
        /\ calls[s][1] # calls[s][2]
        /\ Failed(s)
        /\ Len(AllSteps(s).body) = 3

(***************************************************************************)
(* C2: in every reachable state every step of every session has end_time   *)
(* set if and only if its status is COMPLETED or FAILED.                   *)
(***************************************************************************)
C2_EndTimeIffTerminal ==
    \A s \in SessionIds :
        \A i \in 1..Len(sessions[s].steps) :
            LET step == sessions[s].steps[i]
            IN  (step.end_time # NoneTime) <=> (step.status \in Terminal)

C2_Witness ==
    \E s \in SessionIds :
        /\ Len(sessions[s].steps) = 3
        /\ sessions[s].steps[1].status = "completed"
        /\ sessions[s].steps[2].status = "failed"
        /\ sessions[s].steps[3].type = "error"

Matches(step, T, S) ==
    /\ T # None => step.type = T
    /\ S # None => step.status = S

FilteredAsRequested ==
    \A s \in SessionIds :
        \A T \in TypeFilters, S \in StatusFilters :
            LET answer == get_conversation_steps(sessions, s, T, S)
            IN  /\ answer.code = 200
                /\ answer.body = SelectSeq(sessions[s].steps,
                                           LAMBDA step : Matches(step, T, S))

(***************************************************************************)
(* C3: for an existing session, the step listing with type filter T and/or *)
(* status filter S is exactly the subsequence of the session's steps whose *)
(* type is T (when T is given) and whose status is S (when S is given), in *)
(* the same order; a filter left out restricts nothing.                    *)
(***************************************************************************)
C3_FilteredSubsequence == []FilteredAsRequested

C3_Witness ==
    \E s \in SessionIds :
        LET both == get_conversation_steps(sessions, s, "tool_use", "failed").body
            byType == get_conversation_steps(sessions, s, "tool_use", None).body
            byStatus == get_conversation_steps(sessions, s, None, "failed").body
        IN  /\ Len(both) = 1
            /\ Len(byType) = 2
            /\ Len(byStatus) = 2
            /\ Len(sessions[s].steps) = 3

(***************************************************************************)
(* C4: in every reachable state, so at any point of any interleaving with  *)
(* running orchestrations, the summary of an existing session has all four *)
(* step types as keys of step_type_counts and all four statuses as keys of *)
(* status_counts, and the type counts, the status counts and total_steps   *)
(* have the same sum.                                                      *)
(***************************************************************************)
C4_SummaryConsistent ==
    \A s \in SessionIds :
        LET answer == get_conversation_summary(sessions, s, now)
        IN  /\ answer.code = 200
            /\ DOMAIN answer.body.step_type_counts = StepType
            /\ DOMAIN answer.body.status_counts = StepStatus
            /\ SumOver(answer.body.step_type_counts, StepType)
                   = answer.body.total_steps
            /\ SumOver(answer.body.status_counts, StepStatus)
                   = answer.body.total_steps
            /\ answer.body.total_steps = Len(sessions[s].steps)

C4_Witness ==
    \E s, other \in SessionIds :
        LET body == get_conversation_summary(sessions, s, now).body
        IN  /\ s # other
            /\ pc[other] = "await"
            /\ Len(calls[other]) = 1
            /\ body.total_steps = 2
            /\ body.step_type_counts["tool_use"] = 1
            /\ body.step_type_counts["error"] = 1
            /\ body.status_counts["failed"] = 2
            /\ body.status_counts["pending"] = 0

(***************************************************************************)
(* C5: whenever the sampling loop raises an error with message m, after    *)
(* any number of callbacks, the session is FAILED, exactly one step has    *)
(* type ERROR, it is the last step, it is FAILED with error = m, and       *)
(* create_conversation answers 500 with m.                                 *)
(***************************************************************************)
C5_LoopErrorRecorded ==
    \A s \in DOMAIN loop :
        loop[s].state = "raised" =>
            LET m == loop[s].text
                steps == sessions[s].steps
                last == steps[Len(steps)]
            IN  /\ sessions[s].status = "failed"
                /\ Len(steps) = Len(calls[s]) + 1
                /\ {i \in 1..Len(steps) : steps[i].type = "error"} = {Len(steps)}
                /\ last.status = "failed"
                /\ last.error = m
                /\ s \in DOMAIN response
                /\ response[s] = HTTPException(500, m)

C5_Witness ==
    \E s, z \in DOMAIN loop :
        /\ loop[s].state = "raised"
        /\ loop[s].text = "rate limited"
        /\ Len(calls[s]) = 2
        /\ loop[z].state = "raised"
        /\ Len(calls[z]) = 0

(***************************************************************************)
(* C6: every tool_callback appends one TOOL_USE step; a result with a      *)
(* non-empty error closes it FAILED with that error in the step's error    *)
(* field, a result whose error is None or empty closes it COMPLETED with   *)
(* no error recorded.                                                      *)
(***************************************************************************)
C6_ToolStepOutcome ==
    \A s \in DOMAIN callbacks :
        /\ Len(sessions[s].steps) >= Len(calls[s])
        /\ \A i \in 1..Len(calls[s]) :
               calls[s][i] = "tool_callback" =>
                   LET step == sessions[s].steps[i]
                       error == step.details.result.error
                   IN  /\ step.type = "tool_use"
                       /\ (error # None /\ error # "") =>
                              step.status = "failed" /\ step.error = error
                       /\ (error = None \/ error = "") =>
                              step.status = "completed" /\ step.error = None

C6_Witness ==
    \E s \in DOMAIN callbacks :
        /\ Len(calls[s]) = 2
        /\ calls[s][1] = "tool_callback"
        /\ calls[s][2] = "tool_callback"
        /\ sessions[s].steps[1].details.result.error = ""
        /\ sessions[s].steps[1].status = "completed"
        /\ sessions[s].steps[2].details.result.error = "boom"
        /\ sessions[s].steps[2].status = "failed"

(***************************************************************************)
(* C7: _complete_step called, with or without an error, on an adapter      *)
(* that has no open step does not raise and leaves the adapter's           *)
(* current_step and every session unchanged.                               *)
(***************************************************************************)
C7_CompleteWithoutOpenStep ==
    \A s \in DOMAIN callbacks, error \in Errors :
        callbacks[s].current_step = NoStep =>
            LET after == _complete_step(Store, s, error, now)
            IN  /\ ~after.raised
                /\ after.callbacks = callbacks
                /\ after.sessions = sessions

C7_Witness ==
    \E s \in DOMAIN callbacks :
        /\ callbacks[s].current_step = NoStep
        /\ Len(sessions[s].steps) = 2
        /\ pc[s] = "await"

C8_AllNotFound ==
    \A id \in NeverCreated :
        /\ get_conversation(sessions, id).code = 404
        /\ \A T \in TypeFilters, S \in StatusFilters :
               get_conversation_steps(sessions, id, T, S).code = 404
        /\ get_conversation_summary(sessions, id, now).code = 404

C8_ReadOnly ==
    GetConversation \/ GetConversationSteps \/ GetConversationSummary

(***************************************************************************)
(* C8: for a session id that was never created, get_conversation,          *)
(* get_conversation_steps and get_conversation_summary each answer 404,    *)
(* and none of the three handlers creates a session or changes one.        *)
(***************************************************************************)
C8_UnknownSessionNotFound ==
    /\ []C8_AllNotFound
    /\ [][C8_ReadOnly => sessions' = sessions]_vars

C8_Witness ==
    /\ Cardinality(SessionIds) = 2
    /\ UnusedId \in NeverCreated
    /\ \E s \in SessionIds : Len(sessions[s].steps) = 2

(***************************************************************************)
(* C9: the session is RUNNING while the sampling loop is executing and     *)
(* delivering callbacks, and it is not COMPLETED or FAILED without having  *)
(* been RUNNING before.                                                    *)
(***************************************************************************)
C9_RunningWhileLoopRuns ==
    \A s \in DOMAIN pc : pc[s] = "await" => sessions[s].status = "running"

(***************************************************************************)
(* C10: once the status of a session is COMPLETED or FAILED, no later step *)
(* changes it.                                                             *)
(***************************************************************************)
C10_TerminalOnce ==
    [][\A s \in SessionIds :
           sessions[s].status \in Terminal =>
               sessions'[s].status = sessions[s].status]_vars

(***************************************************************************)
(* C11: when the sampling loop has returned the message sequence M, the    *)
(* session's messages are M, its status is COMPLETED, it has no ERROR      *)
(* step, and create_conversation answers with the session's id, COMPLETED  *)
(* and M.                                                                  *)
(***************************************************************************)
C11_LoopSuccessRecorded ==
    \A s \in DOMAIN loop :
        loop[s].state = "returned" =>
            LET M == loop[s].messages
                steps == sessions[s].steps
            IN  /\ sessions[s].messages = M
                /\ sessions[s].status = "completed"
                /\ \A i \in 1..Len(steps) : steps[i].type # "error"
                /\ pc[s] = "done" =>
                       response[s] = [code |-> 200, session_id |-> s,
                                      status |-> "completed", messages |-> M]

(***************************************************************************)
(* C12: whenever create_conversation has ended in failure, the session's   *)
(* messages are the messages of the request, and its steps are the steps   *)
(* of the callbacks delivered before the failure, in order, followed by    *)
(* the ERROR step.                                                         *)
(***************************************************************************)
C12_FailureKeepsMessages ==
    \A s \in SessionIds :
        Failed(s) =>
            LET steps == sessions[s].steps
                N == Len(calls[s])
            IN  /\ sessions[s].messages = request[s].messages
                /\ Len(steps) = N + 1
                /\ \A i \in 1..N : /\ steps[i].type = StepTypeOf(calls[s][i])
                                   /\ steps[i].id = <<s, i>>
                /\ steps[N + 1].type = "error"

(***************************************************************************)
(* C13: in every reachable state the error field of every step of every    *)
(* session is non-empty if and only if the step is FAILED, the ERROR step  *)
(* of a failure with an empty text included.                               *)
(***************************************************************************)
C13_ErrorIffFailed ==
    \A s \in SessionIds :
        \A i \in 1..Len(sessions[s].steps) :
            LET step == sessions[s].steps[i]
            IN  (step.error # None /\ step.error # "")
                    <=> (step.status = "failed")

(***************************************************************************)
(* C14: every step that changes the status or the messages of a session,   *)
(* on the success path and on the failure path alike, also sets the        *)
(* session's updated_at to the time of the change.                         *)
(***************************************************************************)
C14_UpdatedAtFollowsChange ==
    [][\A s \in SessionIds :
           (\/ sessions'[s].status # sessions[s].status
            \/ sessions'[s].messages # sessions[s].messages)
               => sessions'[s].updated_at = now']_vars

\* A request whose model name can be resolved.
HasModel(provider, model) ==
    Truthy(model) \/ provider \in DOMAIN PROVIDER_TO_DEFAULT_MODEL_NAME

\* A session whose sampling loop was never entered has failed with 500 and
\* has no adapter and no callback.
C15_NoLoopNoCallback ==
    \A s \in SessionIds :
        s \notin DOMAIN loop =>
            /\ calls[s] = <<>>
            /\ s \notin DOMAIN callbacks
            /\ s \in DOMAIN response
            /\ response[s].code = 500

\* The loop is entered by the request's own create_conversation step, when
\* its model name can be resolved and only then, and a loop that has ended
\* is not entered again.
C15_EnteredOnce ==
    /\ \A messages \in RequestMessages, provider \in Providers, model \in Models :
           create_conversation(messages, provider, model) =>
               LET session_id == Cardinality(SessionIds) + 1
               IN  /\ DOMAIN loop' \subseteq (DOMAIN loop) \cup {session_id}
                   /\ session_id \in DOMAIN loop' <=> HasModel(provider, model)
    /\ \A s \in DOMAIN loop :
           /\ s \in DOMAIN loop'
           /\ loop[s].state # "running" => loop'[s] = loop[s]
    /\ (\A messages \in RequestMessages, provider \in Providers, model \in Models :
            ~create_conversation(messages, provider, model))
           => DOMAIN loop' = DOMAIN loop

(***************************************************************************)
(* C15: for every conversation request the sampling loop is invoked at     *)
(* most once: once when a model name is given or the provider has a        *)
(* default model, and never when no model is given and the provider is     *)
(* unrecognized, in which case the request fails with 500 and no adapter   *)
(* callback is delivered.                                                  *)
(***************************************************************************)
C15_LoopInvokedAtMostOnce ==
    /\ []C15_NoLoopNoCallback
    /\ [][C15_EnteredOnce]_vars

C15_Witness ==
    \E s, z \in SessionIds :
        /\ s \notin DOMAIN loop
        /\ response[s] = HTTPException(500, KeyErrorText("other"))
        /\ z \in DOMAIN loop
        /\ loop[z].state = "returned"
        /\ Len(calls[z]) = 2

\* The steps of s are the steps its own adapter made, one per callback in
\* the order of delivery, then its own ERROR step if its run has failed.
C16_OwnSteps ==
    \A s \in SessionIds :
        LET steps == sessions[s].steps
            N == Len(calls[s])
        IN  /\ Len(steps) = IF Failed(s) THEN N + 1 ELSE N
            /\ \A i \in 1..Len(steps) : steps[i].id = <<s, i>>
            /\ \A i \in 1..N : steps[i].type = StepTypeOf(calls[s][i])
            /\ Failed(s) => steps[N + 1].type = "error"

\* The run of session x takes a step: its position, its adapter or the
\* callbacks delivered to it change.
RunActs(x) ==
    \/ pc'[x] # pc[x]
    \/ calls'[x] # calls[x]
    \/ x \in DOMAIN callbacks /\ callbacks'[x] # callbacks[x]

\* A session changes only in a step of its own run, and a step changes at
\* most one session.
C16_OthersUntouched ==
    /\ \A x \in SessionIds : sessions'[x] # sessions[x] => RunActs(x)
    /\ \A x, y \in SessionIds :
           (sessions'[x] # sessions[x] /\ sessions'[y] # sessions[y]) => x = y

(***************************************************************************)
(* C16: under every interleaving of concurrent create_conversation runs    *)
(* with distinct session ids, the step log of each session holds exactly   *)
(* the steps of its own adapter's callbacks, in that adapter's callback    *)
(* order, plus its own ERROR step if any, and no callback, success or      *)
(* failure of one run changes the steps, status or messages of another     *)
(* session.                                                                *)
(***************************************************************************)
C16_RunsIsolated ==
    /\ []C16_OwnSteps
    /\ [][C16_OthersUntouched]_vars

C16_Witness ==
    \E s, z \in DOMAIN callbacks :
        /\ s # z
        /\ calls[s] = <<"tool_callback">>
        /\ calls[z] = <<"content_callback">>
        /\ sessions[s].status = "failed"
        /\ Len(sessions[s].steps) = 2
        /\ sessions[z].status = "completed"
        /\ Len(sessions[z].steps) = 1
        /\ pc[z] = "done"

\* The ids of the RUNNING steps of session sid in the registry sess.
RunningSteps(sess, sid) ==
    {sess[sid].steps[i].id : i \in {j \in 1..Len(sess[sid].steps) :
                                        sess[sid].steps[j].status = "running"}}

\* In S, the open steps of the adapter's session are the step current_step
\* references, if any, and nothing else.
OneOpenStep(S, self) ==
    LET cur == S.callbacks[self].current_step
        sid == S.callbacks[self].session_id
    IN  RunningSteps(S.sessions, sid) = IF cur = NoStep THEN {} ELSE {cur}

(***************************************************************************)
(* C17: for every adapter, with callbacks delivered one after the other,   *)
(* at most one step of its session is RUNNING at any time and it is the    *)
(* step current_step references; when current_step is empty the session    *)
(* has no RUNNING step.  Stated between callbacks and, for every callback  *)
(* the running loop can deliver next, between its _add_step and its        *)
(* _complete_step.                                                         *)
(***************************************************************************)
C17_OneOpenStep ==
    \A s \in DOMAIN callbacks :
        /\ OneOpenStep(Store, s)
        /\ pc[s] = "await" =>
               \A step_type \in StepType \ {"error"} :
                   LET S1 == _add_step(Store, s, step_type, <<>>, now)
                   IN  /\ RunningSteps(S1.sessions, s)
                              = {S1.callbacks[s].current_step}
                       /\ \A error \in Errors :
                              LET S2 == _complete_step(S1, s, error, now)
                              IN  /\ RunningSteps(S2.sessions, s) = {}
                                  /\ S2.callbacks[s].current_step = NoStep

C17_Witness ==
    \E s \in DOMAIN callbacks :
        LET S1 == _add_step(Store, s, "tool_use", <<>>, now)
        IN  /\ pc[s] = "await"
            /\ Len(calls[s]) = 1
            /\ callbacks[s].current_step = NoStep
            /\ RunningSteps(sessions, s) = {}
            /\ RunningSteps(S1.sessions, s) = {<<s, 2>>}
            /\ S1.callbacks[s].current_step = <<s, 2>>

\* The step sequence `new` extends `old`: same ids and types at the old
\* positions, and the old steps that were COMPLETED or FAILED are untouched.
Extends(old, new) ==
    /\ Len(new) >= Len(old)
    /\ \A i \in 1..Len(old) :
           /\ new[i].id = old[i].id
           /\ new[i].type = old[i].type
           /\ old[i].status \in Terminal => new[i] = old[i]

\* The two halves of a callback, taken one at a time, extend the sequence.
C18_CallbackHalvesExtend ==
    \A s \in DOMAIN callbacks :
        pc[s] = "await" =>
            \A step_type \in StepType \ {"error"} :
                LET steps1 == _add_step(Store, s, step_type, <<>>, now)
                                  .sessions[s].steps
                IN  /\ Extends(sessions[s].steps, steps1)
                    /\ Len(steps1) = Len(sessions[s].steps) + 1
                    /\ \A error \in Errors :
                           LET steps2 ==
                                   _complete_step(
                                       _add_step(Store, s, step_type, <<>>, now),
                                       s, error, now).sessions[s].steps
                           IN  /\ Extends(steps1, steps2)
                               /\ Len(steps2) = Len(steps1)

(***************************************************************************)
(* C18: the step sequence of a session only grows by appending at the end: *)
(* after any operation (a callback, the success or failure of the          *)
(* orchestration, a query) the earlier sequence of step ids and types is a *)
(* prefix of the new one, and a step that is COMPLETED or FAILED is never  *)
(* modified again.                                                         *)
(***************************************************************************)
C18_AppendOnly ==
    /\ []C18_CallbackHalvesExtend
    /\ [][\A s \in SessionIds :
              Extends(sessions[s].steps, sessions'[s].steps)]_vars

C18_Witness ==
    \E s \in DOMAIN callbacks :
        /\ calls[s] = <<"tool_callback", "api_callback">>
        /\ Len(sessions[s].steps) = 3
        /\ sessions[s].steps[1].status = "failed"
        /\ sessions[s].steps[2].status = "completed"
        /\ sessions[s].steps[3].type = "error"
        /\ sessions[s].steps[3].id = <<s, 3>>

\* A callback delivered to session s changes nothing but the steps of s.
C19_OnlySteps ==
    \A s \in DOMAIN calls :
        calls'[s] # calls[s] =>
            /\ sessions' = [sessions EXCEPT ![s].steps = sessions'[s].steps]
            /\ sessions'[s].status = sessions[s].status
            /\ sessions'[s].messages = sessions[s].messages
            /\ sessions'[s].updated_at = sessions[s].updated_at
            /\ Len(sessions'[s].steps) = Len(sessions[s].steps) + 1

(***************************************************************************)
(* C19: each adapter callback (content_callback, tool_callback,            *)
(* api_callback) changes only the step sequence of the session its adapter *)
(* is bound to and leaves that session's status, messages and updated_at   *)
(* as they are; a tool_callback that records a FAILED step does not make   *)
(* the session FAILED.                                                     *)
(***************************************************************************)
C19_CallbackFrame == [][C19_OnlySteps]_vars

\* A session that ended COMPLETED and holds a FAILED step.
C19_Witness ==
    \E s \in DOMAIN callbacks :
        /\ calls[s] = <<"tool_callback">>
        /\ sessions[s].steps[1].status = "failed"
        /\ sessions[s].status = "completed"
        /\ pc[s] = "done"
        /\ response[s].code = 200

\* The positions of the ERROR steps of session s.
ErrorSteps(s) ==
    {i \in 1..Len(sessions[s].steps) : sessions[s].steps[i].type = "error"}

(***************************************************************************)
(* C20: in every reachable state and for every session, the status is      *)
(* FAILED if and only if the step sequence holds a step of type ERROR; a   *)
(* session has at most one ERROR step and, when present, it is the last    *)
(* step of the sequence.                                                   *)
(***************************************************************************)
C20_FailedIffErrorStep ==
    \A s \in SessionIds :
        /\ (sessions[s].status = "failed") <=> (ErrorSteps(s) # {})
        /\ Cardinality(ErrorSteps(s)) <= 1
        /\ ErrorSteps(s) \subseteq {Len(sessions[s].steps)}

C20_Witness ==
    \E s, z \in SessionIds :
        /\ sessions[s].status = "failed"
        /\ ErrorSteps(s) = {2}
        /\ loop[s].state = "returned"
        /\ sessions[z].status = "completed"
        /\ ErrorSteps(z) = {}
        /\ Len(sessions[z].steps) = 1
        /\ sessions[z].steps[1].status = "failed"

====
